---- MODULE Spec2Model ----
(***************************************************************************)
(* Model of op-superchain/backend.go: the message-safety backend.          *)
(*                                                                         *)
(*   - backend.l2PeerNodes          map[uint64]client.RPC, built once      *)
(*   - backend.l2FinalizedBlockRef  *eth.L1BlockRef guarded by backend.mu  *)
(*   - MessageSafety                one process per caller goroutine       *)
(*   - l2FinalizedHeadSignal        the callback eth.PollBlockChanges runs *)
(*                                                                         *)
(* A big.Int (id.ChainId) is kept as its two low 64-bit words [hi, lo],    *)
(* value hi * 2^64 + lo; big.Int's Uint64 method returns the low word.     *)
(***************************************************************************)
EXTENDS Integers, Sequences, FiniteSets, TLC

\* ------------------------------------------------------------------ bounds

\* longest log list a peer returns for one block
MaxLogs == 2

\* number of successful refreshes (callback invocations) explored
MaxRefreshes == 2

\* ------------------------------------------------------------ value sets

Callers == {"c1", "c2"}

Nil == "nil"

\* MessageSafetyLabel
Invalid == "Invalid"
Finalized == "Finalized"

\* the errors MessageSafety builds with fmt.Errorf
ErrPeer == "peer with chain id is not configured"
ErrBatch == "unable to request logs"
ErrElems == "caught batch rpc failures"
ErrNoBlock == "block does not exist"
ErrLogIndex == "invalid log index"
ErrIndexMismatch == "message log index mismatch"
ErrPayload == "message payload bytes mismatch"
ErrOrigin == "message origin mismatch"
ErrTimestamp == "message timestamp mismatch"
\* the Go runtime's panic on an out-of-range slice index
\* the error of a context that was canceled
ErrCanceled == "context canceled"
ErrPanic == "panic: index out of range"

\* cfg.PeerL2NodeAddrs: chain id (uint64) -> node address
PeerL2NodeAddrs == [k \in {10, 11} |-> IF k = 10 THEN "addr10" ELSE "addr11"]

\* big.Int chain ids: 10, 11, 20 and 2^64 + 10
ChainIds == {[hi |-> 0, lo |-> 10], [hi |-> 0, lo |-> 11],
             [hi |-> 0, lo |-> 20], [hi |-> 1, lo |-> 10]}

BlockNumbers == {100, 101}
Origins == {"0xA", "0xB"}
Timestamps == {1000, 2000}

\* eth.L1BlockRef values the finalized-label fetch can deliver {Number, Time}
Refs == {[Number |-> 7, Time |-> 500], [Number |-> 9, Time |-> 1000]}

\* what the first, synchronous fetch of line 75 returned
InitialRefs == {[Number |-> 7, Time |-> 500]}

\* types.Log contents: Topics (each topic its bytes) and Data
LogBodies == {[Topics |-> <<<<18>>>>, Data |-> <<52>>],
              [Topics |-> <<>>, Data |-> <<18, 53>>]}

Payloads == {<<18, 52>>}

NullHeader == [null |-> TRUE, Time |-> 0]
Headers == {[null |-> FALSE, Time |-> t] : t \in Timestamps}

\* the identifier of the message logged first in block 100 of chain 10
BaseId == [ChainId |-> [hi |-> 0, lo |-> 10], BlockNumber |-> 100, LogIndex |-> 0,
           Origin |-> "0xA", Timestamp |-> 1000]

\* identifiers: BaseId with any one field changed
MessageIdentifiers ==
    {[BaseId EXCEPT !.ChainId = x] : x \in ChainIds}
    \cup {[BaseId EXCEPT !.BlockNumber = x] : x \in BlockNumbers}
    \cup {[BaseId EXCEPT !.LogIndex = x] : x \in 0..MaxLogs}
    \cup {[BaseId EXCEPT !.Origin = x] : x \in Origins}
    \cup {[BaseId EXCEPT !.Timestamp = x] : x \in Timestamps}

\* types.Log: Index, Address, Topics, Data
Logs ==
    {[Index |-> i, Address |-> a, Topics |-> b.Topics, Data |-> b.Data] :
        i \in 0..(MaxLogs - 1), a \in Origins, b \in LogBodies}

\* the log a well-behaved peer reports at position i (0-based) of a block
GoodLog(i) == [Index |-> i, Address |-> "0xA", Topics |-> <<<<18>>>>, Data |-> <<52>>]

GoodList(n) == [i \in 1..n |-> GoodLog(i - 1)]

\* log lists: a well-formed list of n logs with at most one entry replaced
LogLists ==
    {GoodList(n) : n \in 0..MaxLogs} \cup
    UNION {{[GoodList(n) EXCEPT ![k] = l] : k \in 1..n, l \in Logs} : n \in 1..MaxLogs}

\* what a peer can answer to the batch: the call fails, an element fails,
\* or both results are filled in (the header possibly null)
Responses ==
    {[err |-> "rpc down", Error0 |-> Nil, Error1 |-> Nil, header |-> NullHeader, logs |-> <<>>]}
    \cup {[err |-> Nil, Error0 |-> "e0", Error1 |-> e1, header |-> NullHeader, logs |-> ls] :
            e1 \in {Nil}, ls \in {<<>>, GoodList(1)}}
    \cup {[err |-> Nil, Error0 |-> e0, Error1 |-> "e1", header |-> h, logs |-> <<>>] :
            e0 \in {Nil, "e0"}, h \in {NullHeader, [null |-> FALSE, Time |-> 1000]}}
    \cup [err : {Nil}, Error0 : {Nil}, Error1 : {Nil},
          header : Headers \cup {NullHeader}, logs : LogLists]

\* the inputs and answers of the runs with several concurrent callers
ConcIdentifiers ==
    {BaseId, [BaseId EXCEPT !.Timestamp = 2000],
     [BaseId EXCEPT !.ChainId = [hi |-> 0, lo |-> 20]]}

ConcResponses ==
    {r \in Responses :
        \/ r.err # Nil
        \/ r.Error0 = Nil /\ r.Error1 = Nil /\ ~r.header.null /\ r.logs = GoodList(1)}

\* ------------------------------------------------------------ pure helpers

\* big.Int's Uint64: the low 64 bits
Uint64(x) == x.lo

RECURSIVE HexDigits(_)
HexDigits(n) ==
    LET d == <<"0", "1", "2", "3", "4", "5", "6", "7", "8", "9",
               "a", "b", "c", "d", "e", "f">>
    IN  IF n < 16 THEN <<d[n + 1]>> ELSE Append(HexDigits(n \div 16), d[(n % 16) + 1])

\* hexutil.EncodeBig
EncodeBig(n) == <<"0x">> \o HexDigits(n)

RECURSIVE ConcatAll(_)
ConcatAll(ss) == IF ss = <<>> THEN <<>> ELSE Head(ss) \o ConcatAll(Tail(ss))

\* MessagePayloadBytes: the topics' bytes in order, then the data
MessagePayloadBytes(log) == ConcatAll(log.Topics) \o log.Data

\* client.NewRPC: the connection to the node at addr
NewRPC(addr) == [addr |-> addr]

\* rpc.BatchElem list of lines 111-115
BatchElemsFor(idv) ==
    LET blockNumber == EncodeBig(idv.BlockNumber)
        filterArgs == [fromBlock |-> blockNumber, toBlock |-> blockNumber]
    IN  << [Method |-> "eth_getBlockByNumber", Args |-> <<blockNumber, FALSE>>],
           [Method |-> "eth_getLogs", Args |-> <<filterArgs>>] >>

\* FetchError looking at the first batch element's Error only
FetchErrorFirstElem(be, h) ==
    IF be.err # Nil THEN ErrBatch
    ELSE IF be.Error0 # Nil THEN ErrElems
    ELSE IF h.null THEN ErrNoBlock
    ELSE Nil

\* FetchError not looking at the error BatchCallContext returned
FetchErrorNoCallErr(be, h) ==
    IF be.Error0 # Nil \/ be.Error1 # Nil THEN ErrElems
    ELSE IF h.null THEN ErrNoBlock
    ELSE Nil

\* lines 116-124: the error of the fetch, Nil when it succeeded
FetchError(be, h) ==
    IF be.err # Nil THEN ErrBatch
    ELSE IF be.Error0 # Nil \/ be.Error1 # Nil THEN ErrElems
    ELSE IF h.null THEN ErrNoBlock
    ELSE Nil

\* logs[i]: Go panics when i is out of range
LogAt(ls, i) == IF i < Len(ls) THEN ls[i + 1] ELSE [panic |-> TRUE]

\* IntegrityError with the bounds check of line 130 off by one
IntegrityErrorOffByOne(idv, pb, h, ls) ==
    IF idv.LogIndex > Len(ls) THEN ErrLogIndex
    ELSE LET log == LogAt(ls, idv.LogIndex)
         IN  IF "panic" \in DOMAIN log THEN ErrPanic
             ELSE IF idv.LogIndex # log.Index THEN ErrIndexMismatch
             ELSE IF pb # MessagePayloadBytes(log) THEN ErrPayload
             ELSE IF idv.Origin # log.Address THEN ErrOrigin
             ELSE IF idv.Timestamp # h.Time THEN ErrTimestamp
             ELSE Nil

\* IntegrityError without the origin check of line 141
IntegrityErrorNoOrigin(idv, pb, h, ls) ==
    IF idv.LogIndex >= Len(ls) THEN ErrLogIndex
    ELSE LET log == LogAt(ls, idv.LogIndex)
         IN  IF "panic" \in DOMAIN log THEN ErrPanic
             ELSE IF idv.LogIndex # log.Index THEN ErrIndexMismatch
             ELSE IF pb # MessagePayloadBytes(log) THEN ErrPayload
             ELSE IF idv.Timestamp # h.Time THEN ErrTimestamp
             ELSE Nil

\* lines 130-146: the error of the log integrity checks, Nil when all pass
IntegrityError(idv, pb, h, ls) ==
    IF idv.LogIndex >= Len(ls) THEN ErrLogIndex
    ELSE LET log == LogAt(ls, idv.LogIndex)
         IN  IF "panic" \in DOMAIN log THEN ErrPanic
             ELSE IF idv.LogIndex # log.Index THEN ErrIndexMismatch
             ELSE IF pb # MessagePayloadBytes(log) THEN ErrPayload
             ELSE IF idv.Origin # log.Address THEN ErrOrigin
             ELSE IF idv.Timestamp # h.Time THEN ErrTimestamp
             ELSE Nil

\* SafetyLabel with the comparison of line 157 strict
SafetyLabelStrict(ts, finalizedTs) ==
    IF ts < finalizedTs THEN [label |-> Finalized, err |-> Nil]
    ELSE [label |-> Invalid, err |-> Nil]

\* lines 157-163: the label once every check has passed
SafetyLabel(ts, finalizedTs) ==
    IF ts <= finalizedTs THEN [label |-> Finalized, err |-> Nil]
    ELSE [label |-> Invalid, err |-> Nil]

\* Fail with the error dropped
FailNoError(e) == [label |-> Invalid, err |-> Nil]

\* lines 102-145: a return with an error
Fail(e) == [label |-> Invalid, err |-> e]

\* ------------------------------------------------------------------ state

VARIABLES
    l2PeerNodes,           \* backend.l2PeerNodes: chain id -> connection
    l2FinalizedBlockRef,   \* backend.l2FinalizedBlockRef (the record pointed to)
    mu,                    \* backend.mu: readers holding, readers blocked, writer
    pc,                    \* each caller's position in MessageSafety
                           \* ("nobackend": it holds no backend to call)
    id,                    \* MessageSafety's id argument
    payloadBytes,          \* MessageSafety's payloadBytes argument
    ctx,                   \* MessageSafety's ctx argument: live or canceled
    header,                \* local var header (result slot of batchElems[0])
    logs,                  \* local var logs (result slot of batchElems[1])
    batchElems,            \* BatchCallContext's error and the elements' Error
    finalizedL2Timestamp,  \* local var finalizedL2Timestamp
    ret,                   \* the (label, error) the call returned
    issued,                \* history: the batch calls this call issued
    served,                \* history: the answer the peer gave this call
    trail,                 \* history: which stages this call ran
    readStart,             \* history: tracker state when the read in progress called RLock
    readVer,               \* history: which stored reference the call copied
    pollpc,                \* position of NewSuperchainBackend, then of the
                           \* polling loop it starts and of the loop's callback
    sig,                   \* the callback's sig argument
    hist,                  \* history: the references stored, oldest first
    completed              \* history: number of callbacks that returned

callVars == <<pc, id, payloadBytes, ctx, header, logs, batchElems, finalizedL2Timestamp,
              ret, issued, served, trail, readStart, readVer>>
pollVars == <<pollpc, sig, hist, completed>>
vars == <<l2PeerNodes, l2FinalizedBlockRef, mu, callVars, pollVars>>

NoId == [ChainId |-> [hi |-> 0, lo |-> 0], BlockNumber |-> 0, LogIndex |-> 0,
         Origin |-> "", Timestamp |-> 0]
NoRet == [label |-> "", err |-> Nil]
NoElems == [err |-> Nil, Error0 |-> Nil, Error1 |-> Nil]
NoStart == [n |-> 0, floor |-> 0, warned |-> FALSE, blocked |-> FALSE]
NoRef == [Number |-> 0, Time |-> 0]
NoAnswer == [err |-> "no answer", Error0 |-> Nil, Error1 |-> Nil,
             header |-> NullHeader, logs |-> <<>>]

\* NewSuperchainBackend returned a backend: every peer connected and the
\* first finalized reference was fetched (lines 45-51 and 75-80)
InitBackend(cs) ==
    /\ l2PeerNodes = [k \in DOMAIN PeerL2NodeAddrs |-> NewRPC(PeerL2NodeAddrs[k])]
    /\ l2FinalizedBlockRef \in InitialRefs
    /\ hist = <<l2FinalizedBlockRef>>
    /\ mu = [readers |-> {}, rwait |-> {}, writer |-> "none"]
    /\ pc = [c \in cs |-> "idle"]
    /\ id = [c \in cs |-> NoId]
    /\ payloadBytes = [c \in cs |-> <<>>]
    /\ ctx = [c \in cs |-> "live"]
    /\ header = [c \in cs |-> NullHeader]
    /\ logs = [c \in cs |-> <<>>]
    /\ batchElems = [c \in cs |-> NoElems]
    /\ finalizedL2Timestamp = [c \in cs |-> 0]
    /\ ret = [c \in cs |-> NoRet]
    /\ issued = [c \in cs |-> <<>>]
    /\ served = [c \in cs |-> NoAnswer]
    /\ trail = [c \in cs |-> {}]
    /\ readStart = [c \in cs |-> NoStart]
    /\ readVer = [c \in cs |-> 0]
    /\ pollpc = "wait"
    /\ sig = NoRef
    /\ completed = 0

Init == InitBackend({"c1"})

InitConc == InitBackend(Callers)

\* ------------------------------------------------------------ MessageSafety

\* MSCall entering the chain id it did not find into the peer map
MSCallRegister(c, idv, pb) ==
    /\ pc[c] = "idle"
    /\ id' = [id EXCEPT ![c] = idv]
    /\ payloadBytes' = [payloadBytes EXCEPT ![c] = pb]
    /\ IF Uint64(idv.ChainId) \in DOMAIN l2PeerNodes
       THEN /\ issued' = [issued EXCEPT ![c] =
                    <<[conn |-> l2PeerNodes[Uint64(idv.ChainId)], elems |-> BatchElemsFor(idv)]>>]
            /\ trail' = [trail EXCEPT ![c] = {"fetch"}]
            /\ pc' = [pc EXCEPT ![c] = "batch"]
            /\ UNCHANGED <<ret, l2PeerNodes>>
       ELSE /\ ret' = [ret EXCEPT ![c] = Fail(ErrPeer)]
            /\ pc' = [pc EXCEPT ![c] = "done"]
            /\ l2PeerNodes' = [k \in DOMAIN l2PeerNodes \cup {Uint64(idv.ChainId)} |->
                    IF k \in DOMAIN l2PeerNodes THEN l2PeerNodes[k] ELSE NewRPC("")]
            /\ UNCHANGED <<issued, trail>>
    /\ UNCHANGED <<ctx, l2FinalizedBlockRef, mu, header, logs, batchElems,
                   finalizedL2Timestamp, served, readStart, readVer, pollVars>>

\* lines 93-116: the call starts, resolves the peer and sends the batch
MSCall(c, idv, pb) ==
    /\ pc[c] = "idle"
    /\ id' = [id EXCEPT ![c] = idv]
    /\ payloadBytes' = [payloadBytes EXCEPT ![c] = pb]
    /\ IF Uint64(idv.ChainId) \in DOMAIN l2PeerNodes
       THEN /\ issued' = [issued EXCEPT ![c] =
                    <<[conn |-> l2PeerNodes[Uint64(idv.ChainId)], elems |-> BatchElemsFor(idv)]>>]
            /\ trail' = [trail EXCEPT ![c] = {"fetch"}]
            /\ pc' = [pc EXCEPT ![c] = "batch"]
            /\ UNCHANGED ret
       ELSE /\ ret' = [ret EXCEPT ![c] = Fail(ErrPeer)]
            /\ pc' = [pc EXCEPT ![c] = "done"]
            /\ UNCHANGED <<issued, trail>>
    /\ UNCHANGED <<ctx, l2PeerNodes, l2FinalizedBlockRef, mu, header, logs, batchElems,
                   finalizedL2Timestamp, served, readStart, readVer, pollVars>>

\* WriteResult with the slot one variable shared by all calls
WriteResultShared(slots, c, v) == [d \in DOMAIN slots |-> v]

\* a result slot of this call (a local of its frame) receives v
WriteResult(slots, c, v) == [slots EXCEPT ![c] = v]

\* line 116, inside BatchCallContext: the peer's answer r arrives and is
\* decoded into the Result slots &header and &logs
RPCDeliver(c, r) ==
    /\ pc[c] = "batch"
    /\ header' = WriteResult(header, c, r.header)
    /\ logs' = WriteResult(logs, c, r.logs)
    /\ batchElems' = [batchElems EXCEPT ![c] =
            [err |-> r.err, Error0 |-> r.Error0, Error1 |-> r.Error1]]
    /\ served' = [served EXCEPT ![c] = r]
    /\ pc' = [pc EXCEPT ![c] = "check"]
    /\ UNCHANGED <<ctx, l2PeerNodes, l2FinalizedBlockRef, mu, id, payloadBytes,
                   finalizedL2Timestamp, ret, issued, trail, readStart, readVer,
                   pollVars>>

\* MSCheck sending the batch once more after a transport error
MSCheckRetry(c) ==
    /\ pc[c] = "check"
    /\ LET fe == FetchError(batchElems[c], header[c])
           ie == IntegrityError(id[c], payloadBytes[c], header[c], logs[c])
       IN  IF fe = ErrBatch /\ Len(issued[c]) < 2
           THEN /\ issued' = [issued EXCEPT ![c] = Append(@, Head(@))]
                /\ pc' = [pc EXCEPT ![c] = "batch"]
                /\ UNCHANGED <<ret, trail>>
           ELSE /\ UNCHANGED issued
                /\ IF fe # Nil
                   THEN /\ ret' = [ret EXCEPT ![c] = Fail(fe)]
                        /\ pc' = [pc EXCEPT ![c] = "done"]
                        /\ UNCHANGED trail
                   ELSE /\ trail' = [trail EXCEPT ![c] = @ \cup {"integrity"}]
                        /\ IF ie # Nil
                           THEN /\ ret' = [ret EXCEPT ![c] = Fail(ie)]
                                /\ pc' = [pc EXCEPT ![c] = "done"]
                           ELSE /\ pc' = [pc EXCEPT ![c] = "rlock"]
                                /\ UNCHANGED ret
    /\ UNCHANGED <<ctx, l2PeerNodes, l2FinalizedBlockRef, mu, id, payloadBytes, header,
                   logs, batchElems, finalizedL2Timestamp, served,
                   readStart, readVer, pollVars>>

\* lines 116-152: BatchCallContext returned; fetch and integrity checks
MSCheck(c) ==
    /\ pc[c] = "check"
    /\ LET fe == FetchError(batchElems[c], header[c])
           ie == IntegrityError(id[c], payloadBytes[c], header[c], logs[c])
       IN  IF fe # Nil
           THEN /\ ret' = [ret EXCEPT ![c] = Fail(fe)]
                /\ pc' = [pc EXCEPT ![c] = "done"]
                /\ UNCHANGED trail
           ELSE /\ trail' = [trail EXCEPT ![c] = @ \cup {"integrity"}]
                /\ IF ie # Nil
                   THEN /\ ret' = [ret EXCEPT ![c] = Fail(ie)]
                        /\ pc' = [pc EXCEPT ![c] = "done"]
                   ELSE /\ pc' = [pc EXCEPT ![c] = "rlock"]
                        /\ UNCHANGED ret
    /\ UNCHANGED <<ctx, l2PeerNodes, l2FinalizedBlockRef, mu, id, payloadBytes, header,
                   logs, batchElems, finalizedL2Timestamp, issued, served,
                   readStart, readVer, pollVars>>

\* history: the newest stored reference a finished read of another call copied
NewestRead(c) ==
    LET vs == {readVer[d] : d \in DOMAIN pc \ {c}}
    IN  CHOOSE v \in vs \cup {0} : \A w \in vs : w <= v

\* MSRLock on a lock that lets readers in past a waiting writer
MSRLockBarging(c) ==
    /\ pc[c] = "rlock"
    /\ mu' = IF mu.writer # "held"
             THEN [mu EXCEPT !.readers = @ \cup {c}]
             ELSE [mu EXCEPT !.rwait = @ \cup {c}]
    /\ readStart' = [readStart EXCEPT ![c] =
            [n |-> completed, floor |-> NewestRead(c), warned |-> pollpc = "warn",
             blocked |-> mu.writer # "none"]]
    /\ pc' = [pc EXCEPT ![c] = "read"]
    /\ UNCHANGED <<ctx, l2PeerNodes, l2FinalizedBlockRef, id, payloadBytes, header, logs,
                   batchElems, finalizedL2Timestamp, ret, issued, served, trail,
                   readVer, pollVars>>

\* line 153: b.mu.RLock() is called; it returns at once unless a writer
\* holds or awaits the lock
MSRLock(c) ==
    /\ pc[c] = "rlock"
    /\ mu' = IF mu.writer = "none"
             THEN [mu EXCEPT !.readers = @ \cup {c}]
             ELSE [mu EXCEPT !.rwait = @ \cup {c}]
    /\ readStart' = [readStart EXCEPT ![c] =
            [n |-> completed, floor |-> NewestRead(c), warned |-> pollpc = "warn",
             blocked |-> mu.writer # "none"]]
    /\ pc' = [pc EXCEPT ![c] = "read"]
    /\ UNCHANGED <<ctx, l2PeerNodes, l2FinalizedBlockRef, id, payloadBytes, header, logs,
                   batchElems, finalizedL2Timestamp, ret, issued, served, trail,
                   readVer, pollVars>>

\* line 154, right-hand side: the Time of the reference the backend holds
TrackerTime == l2FinalizedBlockRef.Time

\* line 154: RLock has returned; copy the finalized timestamp
MSRead(c) ==
    /\ pc[c] = "read"
    /\ c \in mu.readers
    /\ finalizedL2Timestamp' = [finalizedL2Timestamp EXCEPT ![c] = TrackerTime]
    /\ readVer' = [readVer EXCEPT ![c] = Len(hist)]
    /\ trail' = [trail EXCEPT ![c] = @ \cup {"read"}]
    /\ pc' = [pc EXCEPT ![c] = "runlock"]
    /\ UNCHANGED <<ctx, l2PeerNodes, l2FinalizedBlockRef, mu, id, payloadBytes, header,
                   logs, batchElems, ret, issued, served, readStart, pollVars>>

\* MSRUnlock going on without releasing the read lock
MSRUnlockKeep(c) ==
    /\ pc[c] = "runlock"
    /\ pc' = [pc EXCEPT ![c] = "decide"]
    /\ readStart' = [readStart EXCEPT ![c] = NoStart]
    /\ UNCHANGED <<ctx, l2PeerNodes, l2FinalizedBlockRef, mu, id, payloadBytes, header,
                   logs, batchElems, finalizedL2Timestamp, ret, issued, served, trail,
                   readVer, pollVars>>

\* line 155: b.mu.RUnlock()
MSRUnlock(c) ==
    /\ pc[c] = "runlock"
    /\ mu' = [mu EXCEPT !.readers = @ \ {c}]
    /\ pc' = [pc EXCEPT ![c] = "decide"]
    /\ readStart' = [readStart EXCEPT ![c] = NoStart]
    /\ UNCHANGED <<ctx, l2PeerNodes, l2FinalizedBlockRef, id, payloadBytes, header, logs,
                   batchElems, finalizedL2Timestamp, ret, issued, served, trail,
                   readVer, pollVars>>

\* lines 157-163: compare and return
MSDecide(c) ==
    /\ pc[c] = "decide"
    /\ ret' = [ret EXCEPT ![c] = SafetyLabel(id[c].Timestamp, finalizedL2Timestamp[c])]
    /\ pc' = [pc EXCEPT ![c] = "done"]
    /\ UNCHANGED <<ctx, l2PeerNodes, l2FinalizedBlockRef, mu, id, payloadBytes, header,
                   logs, batchElems, finalizedL2Timestamp, issued, served, trail,
                   readStart, readVer, pollVars>>

\* the caller has the result; its goroutine is free to call again
MSReturn(c) ==
    /\ pc[c] = "done"
    /\ pc' = [pc EXCEPT ![c] = "idle"]
    /\ id' = [id EXCEPT ![c] = NoId]
    /\ payloadBytes' = [payloadBytes EXCEPT ![c] = <<>>]
    /\ header' = [header EXCEPT ![c] = NullHeader]
    /\ logs' = [logs EXCEPT ![c] = <<>>]
    /\ batchElems' = [batchElems EXCEPT ![c] = NoElems]
    /\ finalizedL2Timestamp' = [finalizedL2Timestamp EXCEPT ![c] = 0]
    /\ ret' = [ret EXCEPT ![c] = NoRet]
    /\ issued' = [issued EXCEPT ![c] = <<>>]
    /\ served' = [served EXCEPT ![c] = NoAnswer]
    /\ trail' = [trail EXCEPT ![c] = {}]
    /\ readStart' = [readStart EXCEPT ![c] = NoStart]
    /\ readVer' = [readVer EXCEPT ![c] = 0]
    /\ ctx' = [ctx EXCEPT ![c] = "live"]
    /\ UNCHANGED <<l2PeerNodes, l2FinalizedBlockRef, mu, pollVars>>

\* ------------------------------------------- polling loop and its callback

\* eth.PollBlockChanges: the ticker fires and the finalized fetch starts
PollTick ==
    /\ pollpc = "wait"
    /\ pollpc' = "fetching"
    /\ UNCHANGED <<l2PeerNodes, l2FinalizedBlockRef, mu, callVars, sig, hist, completed>>

\* PollFetchFail handing a zero reference to the backend
PollFetchFailReset ==
    /\ pollpc = "fetching"
    /\ pollpc' = "warn"
    /\ l2FinalizedBlockRef' = NoRef
    /\ UNCHANGED <<l2PeerNodes, mu, callVars, sig, hist, completed>>

\* eth.PollBlockChanges: the fetch failed (or timed out); the callback is
\* not run and the failure is logged
PollFetchFail ==
    /\ pollpc = "fetching"
    /\ pollpc' = "warn"
    /\ UNCHANGED <<l2PeerNodes, l2FinalizedBlockRef, mu, callVars, sig, hist, completed>>

\* eth.PollBlockChanges: log.Warn returned, back to the ticker
PollWarn ==
    /\ pollpc = "warn"
    /\ pollpc' = "wait"
    /\ UNCHANGED <<l2PeerNodes, l2FinalizedBlockRef, mu, callVars, sig, hist, completed>>

\* eth.PollBlockChanges: the fetch delivered s; the callback runs and
\* line 82 calls b.mu.Lock(), which bars new readers from here on
PollFetchOk(s) ==
    /\ pollpc = "fetching"
    /\ Len(hist) <= MaxRefreshes
    /\ sig' = s
    /\ mu' = [mu EXCEPT !.writer = "waiting"]
    /\ pollpc' = "lock"
    /\ UNCHANGED <<l2PeerNodes, l2FinalizedBlockRef, callVars, hist, completed>>

\* line 82: Lock returns once the readers that held the lock have left
CbLock ==
    /\ pollpc = "lock"
    /\ mu.readers = {}
    /\ mu' = [mu EXCEPT !.writer = "held"]
    /\ pollpc' = "store"
    /\ UNCHANGED <<l2PeerNodes, l2FinalizedBlockRef, callVars, sig, hist, completed>>

\* CbStore keeping whichever reference has the smaller Time
CbStoreOlder ==
    /\ pollpc = "store"
    /\ l2FinalizedBlockRef' =
            IF sig.Time < l2FinalizedBlockRef.Time THEN sig ELSE l2FinalizedBlockRef
    /\ hist' = Append(hist, sig)
    /\ pollpc' = "unlock"
    /\ UNCHANGED <<l2PeerNodes, mu, callVars, sig, completed>>

\* CbStore assigning to a copy of the backend: the store is lost
CbStoreLost ==
    /\ pollpc = "store"
    /\ hist' = Append(hist, sig)
    /\ pollpc' = "unlock"
    /\ UNCHANGED <<l2PeerNodes, l2FinalizedBlockRef, mu, callVars, sig, completed>>

\* CbStore writing only the Time field of the reference in place
CbStoreInPlace ==
    /\ pollpc = "store"
    /\ l2FinalizedBlockRef' = [l2FinalizedBlockRef EXCEPT !.Time = sig.Time]
    /\ hist' = Append(hist, sig)
    /\ pollpc' = "unlock"
    /\ UNCHANGED <<l2PeerNodes, mu, callVars, sig, completed>>

\* line 83: backend.l2FinalizedBlockRef = &sig
CbStore ==
    /\ pollpc = "store"
    /\ l2FinalizedBlockRef' = sig
    /\ hist' = Append(hist, sig)
    /\ pollpc' = "unlock"
    /\ UNCHANGED <<l2PeerNodes, mu, callVars, sig, completed>>

\* line 84: b.mu.Unlock() admits the readers that were blocked, and the
\* callback returns
CbUnlock ==
    /\ pollpc = "unlock"
    /\ mu' = [readers |-> mu.rwait, rwait |-> {}, writer |-> "none"]
    /\ completed' = completed + 1
    /\ sig' = NoRef
    /\ pollpc' = "wait"
    /\ UNCHANGED <<l2PeerNodes, l2FinalizedBlockRef, callVars, hist>>

\* ---------------------------------------------------------- specifications

Poll ==
    \/ PollTick
    \/ PollFetchFail
    \/ PollWarn
    \/ \E s \in Refs : PollFetchOk(s)
    \/ CbLock
    \/ CbStore
    \/ CbUnlock

Steps(c) ==
    \/ MSCheck(c)
    \/ MSRLock(c)
    \/ MSRead(c)
    \/ MSRUnlock(c)
    \/ MSDecide(c)
    \/ MSReturn(c)

\* one caller, every identifier and every answer
Next ==
    \/ \E c \in DOMAIN pc, idv \in MessageIdentifiers, pb \in Payloads : MSCall(c, idv, pb)
    \/ \E c \in DOMAIN pc, r \in Responses : RPCDeliver(c, r)
    \/ \E c \in DOMAIN pc : Steps(c)
    \/ Poll

Spec == Init /\ [][Next]_vars

\* several concurrent callers, fewer identifiers and answers
NextConc ==
    \/ \E c \in DOMAIN pc, idv \in ConcIdentifiers, pb \in Payloads : MSCall(c, idv, pb)
    \/ \E c \in DOMAIN pc, r \in ConcResponses : RPCDeliver(c, r)
    \/ \E c \in DOMAIN pc : Steps(c)
    \/ Poll

SpecConc == InitConc /\ [][NextConc]_vars

\* the answer of a peer that has the block and the log of BaseId
GoodResponse ==
    [err |-> Nil, Error0 |-> Nil, Error1 |-> Nil,
     header |-> [null |-> FALSE, Time |-> 1000], logs |-> GoodList(1)]

\* several callers that call again and again for one message
NextFair ==
    \/ \E c \in DOMAIN pc, pb \in Payloads : MSCall(c, BaseId, pb)
    \/ \E c \in DOMAIN pc : RPCDeliver(c, GoodResponse)
    \/ \E c \in DOMAIN pc : Steps(c)
    \/ Poll

\* the Go scheduler runs every goroutine that can run: a call that holds or
\* is granted the read lock goes on to copy, unlock and return, and the
\* callback goes on once Lock can return
Fairness ==
    /\ WF_vars(CbLock)
    /\ WF_vars(CbStore)
    /\ WF_vars(CbUnlock)
    /\ \A c \in Callers : WF_vars(MSRead(c) \/ MSRUnlock(c) \/ MSDecide(c))

SpecFair == InitConc /\ [][NextFair]_vars /\ Fairness

\* -------------------------------------------------- construction, cancellation

\* line 37: NewSuperchainBackend has made the backend value: an empty peer
\* map, a nil finalized reference, no polling loop; no caller holds it
InitCtor ==
    /\ l2PeerNodes = [k \in {} |-> NewRPC("")]
    /\ l2FinalizedBlockRef = NoRef
    /\ hist = <<>>
    /\ mu = [readers |-> {}, rwait |-> {}, writer |-> "none"]
    /\ pc = [c \in {"c1"} |-> "nobackend"]
    /\ id = [c \in {"c1"} |-> NoId]
    /\ payloadBytes = [c \in {"c1"} |-> <<>>]
    /\ ctx = [c \in {"c1"} |-> "live"]
    /\ header = [c \in {"c1"} |-> NullHeader]
    /\ logs = [c \in {"c1"} |-> <<>>]
    /\ batchElems = [c \in {"c1"} |-> NoElems]
    /\ finalizedL2Timestamp = [c \in {"c1"} |-> 0]
    /\ ret = [c \in {"c1"} |-> NoRet]
    /\ issued = [c \in {"c1"} |-> <<>>]
    /\ served = [c \in {"c1"} |-> NoAnswer]
    /\ trail = [c \in {"c1"} |-> {}]
    /\ readStart = [c \in {"c1"} |-> NoStart]
    /\ readVer = [c \in {"c1"} |-> 0]
    /\ pollpc = "new"
    /\ sig = NoRef
    /\ completed = 0

\* lines 40-43: connect to the primary node; an error ends construction
CtorDial(ok) ==
    /\ pollpc = "new"
    /\ pollpc' = IF ok THEN "peers" ELSE "failed"
    /\ UNCHANGED <<l2PeerNodes, l2FinalizedBlockRef, mu, callVars, sig, hist, completed>>

\* lines 45-51: one turn of the loop over cfg.PeerL2NodeAddrs (a Go map:
\* any order); connect to peer k and register it, or return the error
CtorDialPeer(k, ok) ==
    /\ pollpc = "peers"
    /\ k \in DOMAIN PeerL2NodeAddrs \ DOMAIN l2PeerNodes
    /\ IF ok
       THEN /\ l2PeerNodes' = [j \in DOMAIN l2PeerNodes \cup {k} |->
                    IF j = k THEN NewRPC(PeerL2NodeAddrs[k]) ELSE l2PeerNodes[j]]
            /\ UNCHANGED pollpc
       ELSE /\ pollpc' = "failed"
            /\ UNCHANGED l2PeerNodes
    /\ UNCHANGED <<l2FinalizedBlockRef, mu, callVars, sig, hist, completed>>

\* lines 51-72: the loop is over; sources.NewL1Client wraps the primary
\* connection or returns an error
CtorNewClient(ok) ==
    /\ pollpc = "peers"
    /\ DOMAIN l2PeerNodes = DOMAIN PeerL2NodeAddrs
    /\ pollpc' = IF ok THEN "fetch0" ELSE "failed"
    /\ UNCHANGED <<l2PeerNodes, l2FinalizedBlockRef, mu, callVars, sig, hist, completed>>

\* CtorStart going on with the zero reference when the first fetch fails
CtorStartUnchecked(ok, r) ==
    /\ pollpc = "fetch0"
    /\ l2FinalizedBlockRef' = IF ok THEN r ELSE NoRef
    /\ hist' = <<l2FinalizedBlockRef'>>
    /\ pollpc' = "wait"
    /\ pc' = [c \in DOMAIN pc |-> "idle"]
    /\ UNCHANGED <<l2PeerNodes, mu, id, payloadBytes, ctx, header, logs, batchElems,
                   finalizedL2Timestamp, ret, issued, served, trail, readStart,
                   readVer, sig, completed>>

\* lines 75-90: the first finalized fetch; on an error return it, else store
\* the reference (line 80), start the polling loop (line 88) and hand the
\* backend to the callers (line 90)
CtorStart(ok, r) ==
    /\ pollpc = "fetch0"
    /\ IF ok
       THEN /\ l2FinalizedBlockRef' = r
            /\ hist' = <<r>>
            /\ pollpc' = "wait"
            /\ pc' = [c \in DOMAIN pc |-> "idle"]
       ELSE /\ pollpc' = "failed"
            /\ UNCHANGED <<l2FinalizedBlockRef, hist, pc>>
    /\ UNCHANGED <<l2PeerNodes, mu, id, payloadBytes, ctx, header, logs, batchElems,
                   finalizedL2Timestamp, ret, issued, served, trail, readStart,
                   readVer, sig, completed>>

Ctor ==
    \/ \E ok \in BOOLEAN : CtorDial(ok)
    \/ \E k \in DOMAIN PeerL2NodeAddrs, ok \in BOOLEAN : CtorDialPeer(k, ok)
    \/ \E ok \in BOOLEAN : CtorNewClient(ok)
    \/ \E ok \in BOOLEAN, r \in Refs : CtorStart(ok, r)

\* the caller cancels the context it passed to a call that has not returned
Cancel(c) ==
    /\ pc[c] \in {"batch", "check", "rlock", "read", "runlock", "decide"}
    /\ ctx[c] = "live"
    /\ ctx' = [ctx EXCEPT ![c] = "canceled"]
    /\ UNCHANGED <<l2PeerNodes, l2FinalizedBlockRef, mu, pc, id, payloadBytes, header,
                   logs, batchElems, finalizedL2Timestamp, ret, issued, served,
                   trail, readStart, readVer, pollVars>>

\* line 116, inside BatchCallContext(ctx, ...): the context is canceled and
\* the wait for the answer ends with the context's error; the result slots
\* are left as they were
RPCAbort(c) ==
    /\ pc[c] = "batch"
    /\ ctx[c] = "canceled"
    /\ batchElems' = [batchElems EXCEPT ![c] =
            [err |-> ErrCanceled, Error0 |-> Nil, Error1 |-> Nil]]
    /\ pc' = [pc EXCEPT ![c] = "check"]
    /\ UNCHANGED <<l2PeerNodes, l2FinalizedBlockRef, mu, id, payloadBytes, ctx, header,
                   logs, finalizedL2Timestamp, ret, issued, served, trail,
                   readStart, readVer, pollVars>>

\* the backend from construction on, one caller, contexts that can be canceled
NextLife ==
    \/ Ctor
    \/ \E c \in DOMAIN pc, idv \in ConcIdentifiers, pb \in Payloads : MSCall(c, idv, pb)
    \/ \E c \in DOMAIN pc, r \in ConcResponses : RPCDeliver(c, r)
    \/ \E c \in DOMAIN pc : Cancel(c) \/ RPCAbort(c)
    \/ \E c \in DOMAIN pc : Steps(c)
    \/ Poll

SpecLife == InitCtor /\ [][NextLife]_vars

\* ------------------------------------------------------------------ claims

\* the chain id of idv is, as a number, a key of the peer registry
Registered(idv) == idv.ChainId.hi = 0 /\ idv.ChainId.lo \in DOMAIN l2PeerNodes

\* the peer answered c's batch with no error and a header
FetchedOk(c) ==
    /\ served[c].err = Nil
    /\ served[c].Error0 = Nil
    /\ served[c].Error1 = Nil
    /\ ~served[c].header.null

InRange(c) == id[c].LogIndex < Len(served[c].logs)

\* the log the peer returned at position id.LogIndex
ServedLog(c) == served[c].logs[id[c].LogIndex + 1]

IndexMismatch(c) == ServedLog(c).Index # id[c].LogIndex
PayloadMismatch(c) == payloadBytes[c] # MessagePayloadBytes(ServedLog(c))
OriginMismatch(c) == ServedLog(c).Address # id[c].Origin
TimestampMismatch(c) == served[c].header.Time # id[c].Timestamp

\* identifier, payload, header and log all agree
Consistent(c) ==
    /\ Registered(id[c])
    /\ FetchedOk(c)
    /\ InRange(c)
    /\ ~IndexMismatch(c)
    /\ ~PayloadMismatch(c)
    /\ ~OriginMismatch(c)
    /\ ~TimestampMismatch(c)

\* the finalized timestamp the tracker held when c copied it
ReadTime(c) == hist[readVer[c]].Time

\* C1: a fully consistent call returns (Finalized, nil) when id.Timestamp is
\* at most the finalized timestamp read during the call, else (Invalid, nil)
C1_ConsistentCallLabel ==
    \A c \in DOMAIN pc :
        (pc[c] = "done" /\ Consistent(c)) =>
            /\ readVer[c] > 0
            /\ ret[c] = IF id[c].Timestamp <= ReadTime(c)
                        THEN [label |-> Finalized, err |-> Nil]
                        ELSE [label |-> Invalid, err |-> Nil]

C1_Witness ==
    \E c \in DOMAIN pc :
        /\ pc[c] = "done"
        /\ Consistent(c)
        /\ id[c].Timestamp = ReadTime(c)
        /\ ret[c] = [label |-> Finalized, err |-> Nil]

\* C2: a call whose ChainId is not registered returns (Invalid, peer not
\* configured) and issues no batch call
C2_UnregisteredNoFetch ==
    \A c \in DOMAIN pc :
        (pc[c] # "idle" /\ ~Registered(id[c])) =>
            /\ issued[c] = <<>>
            /\ pc[c] = "done"
            /\ ret[c] = [label |-> Invalid, err |-> ErrPeer]

\* C3 as stated: every return is (Invalid, error) or (non-Invalid, nil)
C3_TwoShapes ==
    \A c \in DOMAIN pc :
        pc[c] = "done" =>
            \/ ret[c].label = Invalid /\ ret[c].err # Nil
            \/ ret[c].label # Invalid /\ ret[c].err = Nil

\* C3 amended: a call that returns before the tracker read returns Invalid
\* with an error; a call that read the tracker returns no error, and
\* Finalized or Invalid as id.Timestamp is or is not covered; no return
\* pairs a non-Invalid label with an error
C3_ThreeShapes ==
    \A c \in DOMAIN pc :
        pc[c] = "done" =>
            /\ "read" \notin trail[c] => (ret[c].label = Invalid /\ ret[c].err # Nil)
            /\ "read" \in trail[c] =>
                    /\ ret[c].err = Nil
                    /\ ret[c].label = IF id[c].Timestamp <= ReadTime(c)
                                      THEN Finalized ELSE Invalid
            /\ ret[c].label # Invalid => ret[c].err = Nil

C3_Witness ==
    \E c \in DOMAIN pc :
        /\ pc[c] = "done"
        /\ ret[c] = [label |-> Invalid, err |-> Nil]
        /\ Consistent(c)
        /\ id[c].Timestamp > ReadTime(c)

\* C7: after a successful fetch with a header, a LogIndex at or past the end
\* of the returned log list (the empty list included) returns (Invalid,
\* invalid log index), and the list is not indexed
C7_LogIndexOutOfRange ==
    \A c \in DOMAIN pc :
        (pc[c] = "done" /\ FetchedOk(c) /\ ~InRange(c)) =>
            /\ ret[c] = [label |-> Invalid, err |-> ErrLogIndex]
            /\ ret[c].err # ErrPanic
            /\ "read" \notin trail[c]

C7_Witness ==
    \E c \in DOMAIN pc :
        /\ pc[c] = "done"
        /\ FetchedOk(c)
        /\ Len(served[c].logs) > 0
        /\ id[c].LogIndex = Len(served[c].logs)
        /\ ret[c].err = ErrLogIndex

\* the integrity mismatches of c's call, as the errors that name them
Mismatches(c) ==
    (IF IndexMismatch(c) THEN {ErrIndexMismatch} ELSE {})
    \cup (IF PayloadMismatch(c) THEN {ErrPayload} ELSE {})
    \cup (IF OriginMismatch(c) THEN {ErrOrigin} ELSE {})
    \cup (IF TimestampMismatch(c) THEN {ErrTimestamp} ELSE {})

\* C8: after a successful fetch with LogIndex in range, a single mismatch
\* (reported index, payload, origin or header time) returns Invalid with
\* the error of that mismatch, and the four errors differ pairwise
C8_SingleMismatchError ==
    /\ Cardinality({ErrIndexMismatch, ErrPayload, ErrOrigin, ErrTimestamp}) = 4
    /\ \A c \in DOMAIN pc :
        (pc[c] = "done" /\ FetchedOk(c) /\ InRange(c)) =>
            \A e \in {ErrIndexMismatch, ErrPayload, ErrOrigin, ErrTimestamp} :
                Mismatches(c) = {e} => ret[c] = [label |-> Invalid, err |-> e]

C8_Witness ==
    \E c \in DOMAIN pc :
        /\ pc[c] = "done"
        /\ FetchedOk(c)
        /\ InRange(c)
        /\ Mismatches(c) = {ErrOrigin}
        /\ ret[c].err = ErrOrigin

\* each of the other three mismatches alone is reached as well
C8_ReachIndex ==
    \E c \in DOMAIN pc : pc[c] = "done" /\ FetchedOk(c) /\ InRange(c)
                         /\ Mismatches(c) = {ErrIndexMismatch}
C8_ReachPayload ==
    \E c \in DOMAIN pc : pc[c] = "done" /\ FetchedOk(c) /\ InRange(c)
                         /\ Mismatches(c) = {ErrPayload}
C8_ReachTimestamp ==
    \E c \in DOMAIN pc : pc[c] = "done" /\ FetchedOk(c) /\ InRange(c)
                         /\ Mismatches(c) = {ErrTimestamp}

\* C9: a failed batch call, a failed batch element or a null header returns
\* Invalid with an error, with no integrity check and no tracker read
C9_FetchFailureAborts ==
    \A c \in DOMAIN pc :
        (pc[c] = "done" /\ issued[c] # <<>> /\ ~FetchedOk(c)) =>
            /\ ret[c].label = Invalid
            /\ ret[c].err = (IF served[c].err # Nil THEN ErrBatch
                             ELSE IF served[c].Error0 # Nil \/ served[c].Error1 # Nil
                                  THEN ErrElems ELSE ErrNoBlock)
            /\ trail[c] = {"fetch"}
            /\ readVer[c] = 0
            /\ finalizedL2Timestamp[c] = 0

C9_Witness ==
    \E c \in DOMAIN pc :
        /\ pc[c] = "done"
        /\ served[c].err = Nil
        /\ served[c].Error0 = Nil
        /\ served[c].Error1 # Nil
        /\ ~served[c].header.null
        /\ ret[c].err = ErrElems

\* c has copied the finalized timestamp in its current call
HasRead(c) == readVer[c] > 0

\* c has just copied the finalized timestamp and still holds the read lock
ReadDone(c) == pc[c] = "runlock"

\* C4 as stated: a read that starts after the N-th refresh completed and
\* before the next one completes returns the N-th refresh's timestamp
\* (hist[1] is the initial reference, hist[N + 1] that of the N-th refresh)
C4_ReadReturnsLastCompleted ==
    \A c \in DOMAIN pc :
        ReadDone(c) => finalizedL2Timestamp[c] = hist[readStart[c].n + 1].Time

\* C4 amended: a read whose RLock call finds no callback waiting for or
\* holding the lock returns the timestamp of the N-th (latest completed)
\* refresh; one that finds the (N+1)-th callback there waits for it and
\* returns the (N+1)-th timestamp; never an earlier reference, and never one
\* older than a read that finished before it started
C4_ReadNotOlder ==
    \A c \in DOMAIN pc :
        ReadDone(c) =>
            /\ readVer[c] = readStart[c].n + 1 + (IF readStart[c].blocked THEN 1 ELSE 0)
            /\ finalizedL2Timestamp[c] = hist[readVer[c]].Time
            /\ readVer[c] >= readStart[c].floor

C4_Witness ==
    \E c \in DOMAIN pc, d \in DOMAIN pc :
        /\ c # d
        /\ ReadDone(c)
        /\ readVer[d] = 2
        /\ readStart[c].n = 1
        /\ readStart[c].blocked
        /\ readVer[c] = 3
        /\ readStart[c].floor = 2
        /\ hist[3].Time # hist[2].Time

\* the errors a MessageSafety call can return
VerifierErrors ==
    {ErrPeer, ErrBatch, ErrElems, ErrNoBlock, ErrLogIndex, ErrIndexMismatch,
     ErrPayload, ErrOrigin, ErrTimestamp}

\* C5: after a failed refresh the stored reference is still the last one a
\* refresh stored (never a zero reference), a read that starts then returns
\* its timestamp, and no call returns the refresh failure as its error
C5_FailedRefreshKeepsRef ==
    /\ l2FinalizedBlockRef # NoRef
    /\ pollpc = "warn" => l2FinalizedBlockRef = hist[Len(hist)]
    /\ \A c \in DOMAIN pc :
        /\ (ReadDone(c) /\ readStart[c].warned) =>
                finalizedL2Timestamp[c] = hist[readStart[c].n + 1].Time
        /\ pc[c] = "done" => ret[c].err \in VerifierErrors \cup {Nil}

C5_Witness ==
    \E c \in DOMAIN pc :
        /\ ReadDone(c)
        /\ readStart[c].warned
        /\ readStart[c].n = 1
        /\ hist[2] # hist[1]
        /\ finalizedL2Timestamp[c] = hist[2].Time

\* C6: the stored reference is always one whole reference that was
\* delivered; the timestamp a call uses is the Time of the one reference
\* stored at its read, and its label follows that copy whatever is stored
\* afterwards
C6_NoTornReference ==
    /\ \A i \in 1..Len(hist) : hist[i] \in Refs \cup InitialRefs
    /\ \E i \in 1..Len(hist) : l2FinalizedBlockRef = hist[i]
    /\ \A c \in DOMAIN pc :
        /\ HasRead(c) => finalizedL2Timestamp[c] = ReadTime(c)
        /\ (pc[c] = "done" /\ HasRead(c)) =>
                ret[c].label = IF id[c].Timestamp <= ReadTime(c) THEN Finalized ELSE Invalid

C6_Witness ==
    \E c \in DOMAIN pc :
        /\ pc[c] = "done"
        /\ HasRead(c)
        /\ readVer[c] < Len(hist)
        /\ completed = Len(hist) - 1
        /\ ret[c] = [label |-> Invalid, err |-> Nil]
        /\ id[c].Timestamp <= l2FinalizedBlockRef.Time

\* MessageSafety run alone on idv and pb, the peer answering r and the
\* tracker holding finalized time ft
MessageSafetyAlone(idv, pb, r, ft) ==
    IF Uint64(idv.ChainId) \notin DOMAIN l2PeerNodes THEN [label |-> Invalid, err |-> ErrPeer]
    ELSE IF r.err # Nil THEN [label |-> Invalid, err |-> ErrBatch]
    ELSE IF r.Error0 # Nil \/ r.Error1 # Nil THEN [label |-> Invalid, err |-> ErrElems]
    ELSE IF r.header.null THEN [label |-> Invalid, err |-> ErrNoBlock]
    ELSE IF IntegrityError(idv, pb, r.header, r.logs) # Nil
         THEN [label |-> Invalid, err |-> IntegrityError(idv, pb, r.header, r.logs)]
    ELSE IF idv.Timestamp <= ft THEN [label |-> Finalized, err |-> Nil]
    ELSE [label |-> Invalid, err |-> Nil]

\* C10: whatever other calls are in flight, a call returns what it returns
\* when run alone with the same peer answer and the same tracker value
C10_ConcurrentAsSequential ==
    \A c \in DOMAIN pc :
        pc[c] = "done" =>
            ret[c] = MessageSafetyAlone(id[c], payloadBytes[c], served[c],
                                        IF HasRead(c) THEN ReadTime(c) ELSE 0)

C10_Witness ==
    \E c \in DOMAIN pc, d \in DOMAIN pc :
        /\ pc[c] = "done"
        /\ pc[d] = "check"
        /\ id[c] # id[d]
        /\ ret[c] = [label |-> Finalized, err |-> Nil]
        /\ MessageSafetyAlone(id[d], payloadBytes[d], served[d], 0).err = ErrTimestamp

\* ------------------------------------------------------ construction (C11)

\* a caller holds the backend, so MessageSafety can run
BackendReturned == \E c \in DOMAIN pc : pc[c] # "nobackend"

\* the polling loop exists, so the callback can fire
LoopStarted == pollpc \in {"wait", "fetching", "warn", "lock", "store", "unlock"}

\* C11: NewSuperchainBackend hands out a backend only after the primary
\* connection, every peer connection and the first finalized fetch succeeded:
\* whenever MessageSafety can run or the callback can fire, every configured
\* peer is registered and the stored reference is non-nil; once a step of the
\* construction failed there is no backend and the polling loop never starts
C11_FailFastConstruction ==
    /\ [](BackendReturned \/ LoopStarted =>
            /\ BackendReturned /\ LoopStarted
            /\ DOMAIN l2PeerNodes = DOMAIN PeerL2NodeAddrs
            /\ \A k \in DOMAIN l2PeerNodes : l2PeerNodes[k] = NewRPC(PeerL2NodeAddrs[k])
            /\ l2FinalizedBlockRef \in Refs
            /\ l2FinalizedBlockRef # NoRef)
    /\ [](pollpc = "failed" =>
            /\ ~BackendReturned
            /\ l2FinalizedBlockRef = NoRef
            /\ hist = <<>>)
    /\ [][pollpc = "failed" => pollpc' = "failed"]_vars

\* a call is copying the reference while the callback is about to replace it,
\* on a backend that construction completed
C11_Witness ==
    /\ pc["c1"] = "read"
    /\ pollpc = "lock"
    /\ Len(hist) = 1
    /\ l2FinalizedBlockRef = hist[1]
    /\ DOMAIN l2PeerNodes = DOMAIN PeerL2NodeAddrs

\* ------------------------------------------------------ cancellation (C12)

\* C12 as stated: a call whose context was canceled at any point before it
\* returned returns Invalid with a non-nil error
C12_CanceledCallFails ==
    \A c \in DOMAIN pc :
        pc[c] = "done" /\ ctx[c] = "canceled" =>
            ret[c].label = Invalid /\ ret[c].err # Nil

\* C12 amended: the context reaches BatchCallContext only. A canceled call
\* is never left waiting for its batch; when BatchCallContext ends with the
\* context's error the call returns (Invalid, unable to request logs) with no
\* further check or tracker read; a call whose batch was answered returns
\* exactly what an uncanceled call returns for that answer, Finalized included
C12_CancelEndsTheFetch ==
    \A c \in DOMAIN pc :
        /\ pc[c] = "batch" /\ ctx[c] = "canceled" => ENABLED RPCAbort(c)
        /\ batchElems[c].err = ErrCanceled =>
                /\ ctx[c] = "canceled"
                /\ pc[c] \in {"check", "done"}
                /\ served[c] = NoAnswer
                /\ pc[c] = "done" =>
                        /\ ret[c] = Fail(ErrBatch)
                        /\ trail[c] = {"fetch"}
                        /\ Len(issued[c]) = 1
        /\ pc[c] = "done" /\ batchElems[c].err # ErrCanceled =>
                ret[c] = MessageSafetyAlone(id[c], payloadBytes[c], served[c],
                                            IF HasRead(c) THEN ReadTime(c) ELSE 0)

\* a call canceled while its batch was in flight has returned the error
C12_Witness ==
    \E c \in DOMAIN pc :
        /\ pc[c] = "done"
        /\ ctx[c] = "canceled"
        /\ batchElems[c].err = ErrCanceled
        /\ ret[c] = Fail(ErrBatch)

\* ----------------------------------------------- Finalized soundness (C13)

\* C13: a call returns Finalized only if the chain was registered, the batch
\* and both of its elements succeeded, the header was non-null, LogIndex was
\* in range, the log's index, payload and address and the header's time
\* matched, and id.Timestamp <= the finalized timestamp it read after all of
\* these checks
C13_FinalizedSound ==
    \A c \in DOMAIN pc :
        pc[c] = "done" /\ ret[c].label = Finalized =>
            /\ ret[c].err = Nil
            /\ Registered(id[c])
            /\ FetchedOk(c)
            /\ InRange(c)
            /\ ~IndexMismatch(c)
            /\ ~PayloadMismatch(c)
            /\ ~OriginMismatch(c)
            /\ ~TimestampMismatch(c)
            /\ trail[c] = {"fetch", "integrity", "read"}
            /\ HasRead(c)
            /\ id[c].Timestamp <= ReadTime(c)

\* --------------------------------------------------------- routing (C15)

RECURSIVE HexValue(_)
\* the number a sequence of hex digits denotes
HexValue(ds) ==
    LET d == <<"0", "1", "2", "3", "4", "5", "6", "7", "8", "9",
               "a", "b", "c", "d", "e", "f">>
        v(x) == (CHOOSE i \in 1..16 : d[i] = x) - 1
    IN  IF ds = <<>> THEN 0
        ELSE 16 * HexValue(SubSeq(ds, 1, Len(ds) - 1)) + v(ds[Len(ds)])

\* the block number a "0x..." quantity denotes
DecodeBig(q) == HexValue(Tail(q))

\* C15: the batch of a call goes out on the connection configured for the
\* chain id that equals id.ChainId as a number, whatever its size, and both
\* of its requests are for exactly id.BlockNumber (fromBlock = toBlock)
C15_ExactRouting ==
    \A c \in DOMAIN pc :
        issued[c] # <<>> =>
            LET q == issued[c][1]
            IN  /\ Registered(id[c])
                /\ q.conn = l2PeerNodes[id[c].ChainId.lo]
                /\ q.elems[1].Method = "eth_getBlockByNumber"
                /\ Head(q.elems[1].Args[1]) = "0x"
                /\ DecodeBig(q.elems[1].Args[1]) = id[c].BlockNumber
                /\ q.elems[2].Method = "eth_getLogs"
                /\ q.elems[2].Args[1].fromBlock = q.elems[1].Args[1]
                /\ q.elems[2].Args[1].toBlock = q.elems[1].Args[1]

\* ------------------------------------------------ monotonic finality (C14)

\* the timestamps the refreshes stored, in order, never went down
StoredTimesRise ==
    \A i \in 1..(Len(hist) - 1) : hist[i].Time <= hist[i + 1].Time

\* a pair of returned calls with the same identifier, payload and chain data,
\* c having copied the same stored reference as d or a later one
SameCallLater(c, d) ==
    /\ pc[c] = "done" /\ pc[d] = "done"
    /\ id[c] = id[d]
    /\ payloadBytes[c] = payloadBytes[d]
    /\ served[c] = served[d]
    /\ HasRead(c) /\ HasRead(d)
    /\ readVer[c] >= readVer[d]

\* once d was told Finalized, so is every such later c
FinalizedPersists ==
    \A c, d \in DOMAIN pc :
        SameCallLater(c, d) /\ ret[d].label = Finalized => ret[c] = ret[d]

\* C14 as stated: the stored finalized timestamp never decreases across the
\* refreshes, and once a call returned Finalized every later call with the
\* same identifier, payload and chain data returns Finalized
C14_FinalityMonotonic == StoredTimesRise /\ FinalizedPersists

\* C14 amended: the callback stores what the refresh delivered without
\* comparing it with what is stored, so the stored reference is always the
\* last one delivered; as long as the delivered timestamps never went down,
\* a Finalized answer is repeated by every later call with the same
\* identifier, payload and chain data
C14_FinalityFollowsSource ==
    /\ l2FinalizedBlockRef = hist[Len(hist)]
    /\ StoredTimesRise => FinalizedPersists

\* two calls for one message were both told Finalized, the second after a
\* further refresh that did not lower the timestamp
C14_Witness ==
    \E c, d \in DOMAIN pc :
        /\ SameCallLater(c, d)
        /\ readVer[c] > readVer[d]
        /\ StoredTimesRise
        /\ ret[d].label = Finalized
        /\ ret[c].label = Finalized

\* ------------------------------------------------------------ frame (C16)

\* the step is one of a MessageSafety call (its position or its locals change)
VerifierStep == callVars' # callVars

\* C16: no step of MessageSafety, on any return path, changes the stored
\* reference or the peer registry; the registry never changes once the
\* backend is constructed; the stored reference changes only at the
\* callback's store (line 83), to the reference a successful fetch delivered
C16_VerifierReadOnly ==
    [][/\ l2PeerNodes' = l2PeerNodes
       /\ VerifierStep => l2FinalizedBlockRef' = l2FinalizedBlockRef
       /\ l2FinalizedBlockRef' # l2FinalizedBlockRef =>
            /\ pollpc = "store" /\ pollpc' = "unlock"
            /\ mu.writer = "held"
            /\ sig \in Refs
            /\ l2FinalizedBlockRef' = sig]_vars

\* a call returned on a failure path and a refresh replaced the reference,
\* with the registry as construction left it
C16_Witness ==
    /\ pc["c1"] = "done"
    /\ ret["c1"] = Fail(ErrPeer)
    /\ Len(hist) > 1
    /\ l2FinalizedBlockRef # hist[1]
    /\ l2PeerNodes = [k \in DOMAIN PeerL2NodeAddrs |-> NewRPC(PeerL2NodeAddrs[k])]

\* ------------------------------------------------- check precedence (C17)

\* the error of the first check, in the order of the code, that fails on the
\* identifier and payload of c and the answer its peer gave; Nil when none does
FirstFailure(c) ==
    IF ~Registered(id[c]) THEN ErrPeer
    ELSE IF served[c].err # Nil THEN ErrBatch
    ELSE IF served[c].Error0 # Nil \/ served[c].Error1 # Nil THEN ErrElems
    ELSE IF served[c].header.null THEN ErrNoBlock
    ELSE IF ~InRange(c) THEN ErrLogIndex
    ELSE IF IndexMismatch(c) THEN ErrIndexMismatch
    ELSE IF PayloadMismatch(c) THEN ErrPayload
    ELSE IF OriginMismatch(c) THEN ErrOrigin
    ELSE IF TimestampMismatch(c) THEN ErrTimestamp
    ELSE Nil

\* the stages a call runs before it returns the error e
StagesBefore(e) ==
    IF e = ErrPeer THEN {}
    ELSE IF e \in {ErrBatch, ErrElems, ErrNoBlock} THEN {"fetch"}
    ELSE IF e = Nil THEN {"fetch", "integrity", "read"}
    ELSE {"fetch", "integrity"}

\* C17: when several checks would fail, the error returned is that of the
\* first failing one in the order chain not configured, batch transport error, batch
\* element error, null header, LogIndex out of range, log index mismatch,
\* payload mismatch, origin mismatch, timestamp mismatch, and no later stage
\* runs after a check failed
C17_CheckPrecedence ==
    \A c \in DOMAIN pc :
        pc[c] = "done" =>
            /\ ret[c].err = FirstFailure(c)
            /\ ret[c].err # Nil => ret[c].label = Invalid
            /\ trail[c] = StagesBefore(ret[c].err)
            /\ ret[c].err = ErrPeer => issued[c] = <<>> /\ served[c] = NoAnswer

\* ------------------------------------------- locks and blocking fetches (C18)

\* the batch of c is in flight or its answer is being checked
InBatch(c) == pc[c] \in {"batch", "check"}

\* the polling loop is between refreshes or inside its own fetch
OutsideCallback == pollpc \in {"wait", "fetching", "warn"}

\* C18: a call holds (or waits for) the read lock only around the copy of
\* the timestamp, never while its batch is in flight; the refresh path holds
\* (or waits for) the write lock only around the replacement of the
\* reference, never during its own fetch; so no reader waits while a refresh
\* fetch is in flight, and whoever a lock waits for is past its own fetch
C18_NoLockAcrossFetch ==
    /\ \A c \in mu.readers : pc[c] \in {"read", "runlock"}
    /\ \A c \in mu.rwait : pc[c] = "read"
    /\ \A c \in DOMAIN pc : InBatch(c) => c \notin mu.readers \cup mu.rwait
    /\ mu.writer = "waiting" <=> pollpc = "lock"
    /\ mu.writer = "held" <=> pollpc \in {"store", "unlock"}
    /\ OutsideCallback => mu.writer = "none" /\ mu.rwait = {}
    /\ mu.rwait # {} => pollpc \in {"lock", "store", "unlock"}
    /\ mu.readers \cap mu.rwait = {}

\* one call copies the timestamp while the batch of another call and the
\* fetch of a refresh are both in flight
C18_Witness ==
    \E c, d \in DOMAIN pc :
        /\ pc[c] = "batch"
        /\ pc[d] = "runlock"
        /\ d \in mu.readers
        /\ pollpc = "fetching"

\* ---------------------------------------------------- one round trip (C20)

\* C20: a call issues at most one batch, none before it has looked the chain
\* up, exactly one when the chain is registered, made of the header request
\* and the logs request; a transport or element failure ends the call with
\* that one batch issued and no second attempt
C20_OneRoundTrip ==
    \A c \in DOMAIN pc :
        /\ Len(issued[c]) <= 1
        /\ pc[c] = "idle" => issued[c] = <<>>
        /\ pc[c] # "idle" /\ Registered(id[c]) =>
                /\ Len(issued[c]) = 1
                /\ Len(issued[c][1].elems) = 2
                /\ issued[c][1].elems[1].Method = "eth_getBlockByNumber"
                /\ issued[c][1].elems[2].Method = "eth_getLogs"
        /\ pc[c] = "done" /\ ret[c].err \in {ErrBatch, ErrElems} =>
                /\ Len(issued[c]) = 1
                /\ trail[c] = {"fetch"}

\* a call whose batch failed in transport has returned after its one batch
C20_Witness ==
    \E c \in DOMAIN pc :
        /\ pc[c] = "done"
        /\ Registered(id[c])
        /\ served[c].err # Nil
        /\ ret[c] = Fail(ErrBatch)
        /\ Len(issued[c]) = 1

\* ------------------------------------------------------ lock progress (C19)

\* whoever waits for the lock waits for a party that can take its next step
NoLockDeadlock ==
    /\ mu.writer = "waiting" /\ mu.readers # {} =>
            \E c \in mu.readers : ENABLED (MSRead(c) \/ MSRUnlock(c))
    /\ mu.writer = "waiting" /\ mu.readers = {} => ENABLED CbLock
    /\ mu.rwait # {} => ENABLED (CbLock \/ CbStore \/ CbUnlock)
                        \/ \E c \in mu.readers : ENABLED (MSRead(c) \/ MSRUnlock(c))

\* C19: under fair scheduling every acquisition of the lock is followed by
\* its release, no party waits on the lock forever, a refresh that has a new
\* reference installs it even while readers keep arriving, and every call
\* that reaches the tracker read returns
C19_LockProgress ==
    /\ []NoLockDeadlock
    /\ \A c \in Callers : (c \in mu.readers) ~> (c \notin mu.readers)
    /\ (mu.writer = "held") ~> (mu.writer = "none")
    /\ \A s \in Refs :
            (pollpc = "lock" /\ sig = s) ~> (pollpc = "unlock" /\ l2FinalizedBlockRef = s)
    /\ \A c \in Callers : (pc[c] = "read") ~> (pc[c] = "done")

\* the callback waits in Lock behind a reader while another call is blocked
\* in RLock behind the callback
C19_Witness ==
    \E c, d \in DOMAIN pc :
        /\ pollpc = "lock"
        /\ c \in mu.readers
        /\ d \in mu.rwait
        /\ sig # l2FinalizedBlockRef
====
